---- MODULE Spec2Model ----
(***************************************************************************)
(* Model of the CSV bulk-ingestion handler LeadViewSet.upload_csv          *)
(* (lead_management/core/views.py) together with the Lead store it reads   *)
(* and writes (lead_management/core/models.py).                            *)
(*                                                                         *)
(* One request is followed from its entry to its response.  The rows of    *)
(* the uploaded file are processed one per step, so that writers outside   *)
(* the request (other requests of the same view set) interleave with it.   *)
(* Text values are TLA+ strings; stripping, integer parsing, joining and   *)
(* the length rules are computed on the characters.                        *)
(***************************************************************************)
EXTENDS Integers, Sequences, FiniteSets, TLC

VARIABLES
    req,                \* the request: has_file, file_name, decodable, lines
    pc,                 \* position of the handler
    store,              \* the Lead table: a set of lead records
    next_id,            \* the AutoField sequence of Lead.id
    existing_emails,    \* local of upload_csv
    seen_emails_in_csv, \* local of upload_csv
    success_count,      \* local of upload_csv
    error_count,        \* local of upload_csv
    errors,             \* local of upload_csv: sequence of error entries
    created_leads,      \* local of upload_csv: sequence of lead ids
    response,           \* the Response returned (status 0: none yet)
    outcomes,           \* history: per processed row, its kind, id and row_errors
    db_reads,           \* history: queries upload_csv has made
    db_writes,          \* history: create calls upload_csv has made
    store0,             \* history: emails in the store when the batch read them
    row_num,            \* local of upload_csv: number of the next row
    ext_left,           \* writes by other requests still to come
    prior               \* history: the upload that preceded this one, if any

vars == <<req, pc, store, next_id, existing_emails, seen_emails_in_csv,
          success_count, error_count, errors, created_leads, response,
          outcomes, db_reads, db_writes, store0, row_num, ext_left, prior>>

----------------------------------------------------------------------------
(* Bounds of the model *)

MaxRows == 2        \* data rows in a file of the batch specification
MaxExternal == 1    \* writes by other requests during one batch
MaxPrefix == 1      \* rows preceding the examined row (field specification)

(* Program constants *)

MaxNameLen == 100   \* views.py:130
MaxPlaceLen == 100  \* views.py:169
MaxUrlLen == 200    \* views.py:181
FirstRowNum == 2    \* views.py:113
HTTP_201 == 201
HTTP_200 == 200
HTTP_400 == 400

----------------------------------------------------------------------------
(* Text *)

RECURSIVE Rep(_, _)
Rep(s, n) ==
    IF n = 0 THEN ""
    ELSE IF n % 2 = 1 THEN s \o Rep(s, n - 1)
    ELSE Rep(s \o s, n \div 2)

IsSpace(c) == c \in {" ", "\t"}

RECURSIVE LStrip(_)
LStrip(s) ==
    IF Len(s) > 0 /\ IsSpace(SubSeq(s, 1, 1))
    THEN LStrip(SubSeq(s, 2, Len(s)))
    ELSE s

RECURSIVE RStrip(_)
RStrip(s) ==
    IF Len(s) > 0 /\ IsSpace(SubSeq(s, Len(s), Len(s)))
    THEN RStrip(SubSeq(s, 1, Len(s) - 1))
    ELSE s

\* str.strip()
Strip(s) == RStrip(LStrip(s))

\* str.endswith(suffix)
EndsWith(s, suffix) ==
    /\ Len(s) >= Len(suffix)
    /\ SubSeq(s, Len(s) - Len(suffix) + 1, Len(s)) = suffix

\* sub in s
Contains(s, sub) ==
    \E i \in 1..(Len(s) - Len(sub) + 1) : SubSeq(s, i, i + Len(sub) - 1) = sub

\* sep.join(parts)
RECURSIVE Join(_, _)
Join(parts, sep) ==
    IF Len(parts) = 0 THEN ""
    ELSE IF Len(parts) = 1 THEN parts[1]
    ELSE parts[1] \o sep \o Join(Tail(parts), sep)

Digits == {"0", "1", "2", "3", "4", "5", "6", "7", "8", "9"}

DigitVal(c) ==
    CASE c = "0" -> 0 [] c = "1" -> 1 [] c = "2" -> 2 [] c = "3" -> 3
      [] c = "4" -> 4 [] c = "5" -> 5 [] c = "6" -> 6 [] c = "7" -> 7
      [] c = "8" -> 8 [] c = "9" -> 9

AllDigits(s) == \A i \in 1..Len(s) : SubSeq(s, i, i) \in Digits

RECURSIVE DigitsVal(_)
DigitsVal(s) ==
    IF Len(s) = 0 THEN 0
    ELSE 10 * DigitsVal(SubSeq(s, 1, Len(s) - 1)) + DigitVal(SubSeq(s, Len(s), Len(s)))

HasSign(s) == Len(s) > 0 /\ SubSeq(s, 1, 1) \in {"-", "+"}

Unsigned(s) == IF HasSign(s) THEN SubSeq(s, 2, Len(s)) ELSE s

\* int(s) does not raise ValueError: optional sign, then decimal digits
IsInt(s) == Len(Unsigned(Strip(s))) > 0 /\ AllDigits(Unsigned(Strip(s)))

\* int(s)
IntOf(s) ==
    IF SubSeq(Strip(s), 1, 1) = "-"
    THEN 0 - DigitsVal(Unsigned(Strip(s)))
    ELSE DigitsVal(Unsigned(Strip(s)))

CountChar(s, c) == Cardinality({i \in 1..Len(s) : SubSeq(s, i, i) = c})

IndexOf(s, c) == CHOOSE i \in 1..Len(s) : SubSeq(s, i, i) = c /\ \A j \in 1..(i - 1) : SubSeq(s, j, j) # c

\* validate_email(s) does not raise ValidationError: one "@", a non-empty
\* local part, a dotted domain with non-empty labels, no white space
IsValidEmail(s) ==
    /\ CountChar(s, "@") = 1
    /\ CountChar(s, " ") = 0
    /\ LET at == IndexOf(s, "@")
           domain == SubSeq(s, at + 1, Len(s))
       IN /\ at > 1
          /\ Len(domain) >= 3
          /\ CountChar(domain, ".") >= 1
          /\ SubSeq(domain, 1, 1) # "."
          /\ SubSeq(domain, Len(domain), Len(domain)) # "."

----------------------------------------------------------------------------
(* Rows of the file, as csv.DictReader hands them to the loop *)

Header == <<"name", "age", "email", "place", "status", "image_url", "remarks">>

InHeader(col) == \E i \in 1..Len(Header) : Header[i] = col

ColIndex(col) == CHOOSE i \in 1..Len(Header) : Header[i] = col

\* DictReader fills the columns a short line lacks with restval = None, so
\* row.get(col, '') is None there and .strip() raises AttributeError
IsNone(line, col) == InHeader(col) /\ ColIndex(col) > Len(line)

\* row.get(col, '').strip(), where it does not raise
Field(line, col) == IF InHeader(col) THEN Strip(line[ColIndex(col)]) ELSE ""

RowRaises(line) ==
    \E col \in {"name", "age", "email", "place", "status", "image_url", "remarks"} :
        IsNone(line, col)

\* x or None: the empty set is None
OrNone(s) == IF s = "" THEN {} ELSE {s}

ValidStatuses == <<"New", "Converted">>

----------------------------------------------------------------------------
(* Field rules of one row: views.py 127-182 *)

NameErrors(name) ==
    IF name = "" THEN <<"Name is required">>
    ELSE IF Len(name) > MaxNameLen THEN <<"Name must be 100 characters or less">>
    ELSE <<>>

\* variant: the sign of the age is not checked
AgeErrorsAnySign(age_str) ==
    IF age_str = "" THEN <<"Age is required">>
    ELSE IF ~IsInt(age_str) THEN <<"Age must be a valid integer">>
    ELSE <<>>

AgeErrors(age_str) ==
    IF age_str = "" THEN <<"Age is required">>
    ELSE IF ~IsInt(age_str) THEN <<"Age must be a valid integer">>
    ELSE IF IntOf(age_str) < 0 THEN <<"Age must be a positive number">>
    ELSE <<>>

\* the age handed to Lead.objects.create; only read when the row has no error
AgeOf(age_str) == IntOf(age_str)

FormatErrors(email) ==
    IF IsValidEmail(email) THEN <<>> ELSE <<"Invalid email format">>

\* variant: the file-scope set is not consulted
CsvDuplicateErrorsNone(email, seen) == <<>>

CsvDuplicateErrors(email, seen) ==
    IF email \in seen THEN <<"Duplicate email in CSV file">> ELSE <<>>

\* variant: the snapshot is not consulted
DbDuplicateErrorsNone(email, existing) == <<>>

DbDuplicateErrors(email, existing) ==
    IF email \in existing THEN <<"Email already exists in database">> ELSE <<>>

\* variant: the format rule alone, without the two duplicate checks
EmailErrorsNoDup(email, seen, existing) ==
    IF email = "" THEN <<"Email is required">> ELSE FormatErrors(email)

\* variant: the snapshot is consulted only when the file-scope check passed
EmailErrorsShortCircuit(email, seen, existing) ==
    IF email = "" THEN <<"Email is required">>
    ELSE IF email \in seen
    THEN FormatErrors(email) \o CsvDuplicateErrors(email, seen)
    ELSE FormatErrors(email) \o DbDuplicateErrors(email, existing)

EmailErrors(email, seen, existing) ==
    IF email = "" THEN <<"Email is required">>
    ELSE FormatErrors(email) \o CsvDuplicateErrors(email, seen)
            \o DbDuplicateErrors(email, existing)

\* variant: the email is never recorded
SeenAfterNever(email, seen) == seen

\* seen_emails_in_csv after the row: views.py 147-160
SeenAfter(email, seen) == IF email = "" THEN seen ELSE seen \cup {email}

PlaceErrors(place) ==
    IF place = "" THEN <<"Place is required">>
    ELSE IF Len(place) > MaxPlaceLen THEN <<"Place must be 100 characters or less">>
    ELSE <<>>

StatusErrors(status_str) ==
    IF status_str = "" THEN <<"Status is required">>
    ELSE IF \E i \in 1..Len(ValidStatuses) : ValidStatuses[i] = status_str THEN <<>>
    ELSE <<"Status must be one of: " \o Join(ValidStatuses, ", ")>>

ImageErrors(image_url) ==
    IF \E u \in image_url : Len(u) > MaxUrlLen
    THEN <<"Image URL must be 200 characters or less">>
    ELSE <<>>

\* variant: the checks after the email are skipped for a file duplicate
RowErrorsStopAtDuplicate(line, seen, existing) ==
    IF Field(line, "email") \in seen
    THEN NameErrors(Field(line, "name"))
            \o AgeErrors(Field(line, "age"))
            \o EmailErrors(Field(line, "email"), seen, existing)
    ELSE NameErrors(Field(line, "name"))
            \o AgeErrors(Field(line, "age"))
            \o EmailErrors(Field(line, "email"), seen, existing)
            \o PlaceErrors(Field(line, "place"))
            \o StatusErrors(Field(line, "status"))
            \o ImageErrors(OrNone(Field(line, "image_url")))

\* variant: the duplicate messages are appended after all field-rule messages
RowErrorsDuplicatesLast(line, seen, existing) ==
    NameErrors(Field(line, "name"))
        \o AgeErrors(Field(line, "age"))
        \o EmailErrorsNoDup(Field(line, "email"), seen, existing)
        \o PlaceErrors(Field(line, "place"))
        \o StatusErrors(Field(line, "status"))
        \o ImageErrors(OrNone(Field(line, "image_url")))
        \o (IF Field(line, "email") = "" THEN <<>>
            ELSE CsvDuplicateErrors(Field(line, "email"), seen)
                    \o DbDuplicateErrors(Field(line, "email"), existing))

\* row_errors at line 184, for a line that does not raise
RowErrors(line, seen, existing) ==
    NameErrors(Field(line, "name"))
        \o AgeErrors(Field(line, "age"))
        \o EmailErrors(Field(line, "email"), seen, existing)
        \o PlaceErrors(Field(line, "place"))
        \o StatusErrors(Field(line, "status"))
        \o ImageErrors(OrNone(Field(line, "image_url")))

\* the entry appended to errors when row_errors is not empty: views.py 187-191
ErrorEntry(num, email, row_errors) ==
    [row |-> num,
     email |-> IF email # "" THEN email ELSE "N/A",
     message |-> Join(row_errors, "; ")]

\* the entries of the two except clauses: views.py 207-220
IntegrityEntry(num, email) ==
    [row |-> num, email |-> email,
     message |-> "Database error: Email already exists or constraint violation"]

UnexpectedEntry(num, email, text) ==
    [row |-> num, email |-> email, message |-> "Unexpected error: " \o text]

\* the keyword arguments of Lead.objects.create: views.py 195-203
NewLead(id, line) ==
    [id |-> id,
     name |-> Field(line, "name"),
     age |-> AgeOf(Field(line, "age")),
     email |-> Field(line, "email"),
     place |-> Field(line, "place"),
     status |-> Field(line, "status"),
     image_url |-> OrNone(Field(line, "image_url")),
     remarks |-> OrNone(Field(line, "remarks"))]

StoreEmails(s) == {l.email : l \in s}

\* variant: the column is not declared unique
UniqueViolationNever(s, email) == FALSE

\* Lead.email is unique: models.py 9
UniqueViolation(s, email) == email \in StoreEmails(s)

\* variant: the test for no success comes first
ClassifyNoSuccessFirst(successes, failures) ==
    IF successes = 0 THEN HTTP_400
    ELSE IF failures = 0 THEN HTTP_201
    ELSE HTTP_200

\* status code of the summary response: views.py 231-238
Classify(successes, failures) ==
    IF failures = 0 THEN HTTP_201
    ELSE IF successes > 0 THEN HTTP_200
    ELSE HTTP_400

\* response_data: views.py 223-228
Summary(successes, failures, errs, created) ==
    [success_count |-> successes, error_count |-> failures,
     errors |-> errs, created_leads |-> created]

----------------------------------------------------------------------------
(* Inputs *)

EmailA == "a@x.com"
EmailB == "b@x.com"
Emails == {EmailA, EmailB}

ValidA == <<"Alice", "30", EmailA, "NYC", "New", "", "">>
ValidB == <<"Bob", "0", EmailB, "LA", "Converted", "http://x.com/b.png", "vip">>
PaddedA == <<" Alice ", " 30 ", " a@x.com ", "\tNYC", "New ", "  ", " ">>
NegativeB == <<"Bob", "-5", EmailB, "LA", "New", "", "">>
NoNameA == <<"", "30", EmailA, "NYC", "New", "", "">>
NoEmail == <<"Carl", "30", "", "NYC", "New", "", "">>
ManyBad == <<Rep("n", MaxNameLen + 1), "abc", "bad", Rep("p", MaxPlaceLen + 1),
             "Old", Rep("u", MaxUrlLen + 1), "">>
ShortA == <<"Alice", "30", EmailA, "NYC", "New">>

\* the rows of the batch specification
RowPool == {ValidA, ValidB, PaddedA, NegativeB, NoNameA, NoEmail, ManyBad, ShortA}

\* the rows of the field specification: every combination of the field values
NameValues == {" ", Rep("n", MaxNameLen), Rep("n", MaxNameLen + 1)}
AgeValues == {"", "abc", "-5", "0", "30"}
EmailValues == {"", "bad", EmailA, EmailB}
PlaceValues == {"", Rep("p", MaxPlaceLen), Rep("p", MaxPlaceLen + 1)}
StatusValues == {"", "Old", "New", "Converted"}
UrlValues == {"", Rep("u", MaxUrlLen), Rep("u", MaxUrlLen + 1)}
RemarksValues == {""}

AllRows ==
    {<<n, a, e, p, s, u, r>> :
        n \in NameValues, a \in AgeValues, e \in EmailValues, p \in PlaceValues,
        s \in StatusValues, u \in UrlValues, r \in RemarksValues}
    \cup {ShortA, <<"Alice">>}

\* the rows that may precede the examined row: a valid row and a row with a
\* negative age, both among the combinations above
PrefixPool ==
    {<<Rep("n", MaxNameLen), "30", EmailA, Rep("p", MaxPlaceLen), "New", "", "">>,
     <<Rep("n", MaxNameLen), "-5", EmailB, Rep("p", MaxPlaceLen), "New", "", "">>}

SeqsUpTo(S, n) == UNION {[1..k -> S] : k \in 0..n}

BatchFiles == SeqsUpTo(RowPool, MaxRows)

FieldFiles == {pre \o <<r>> : pre \in SeqsUpTo(PrefixPool, MaxPrefix), r \in AllRows}

\* the requests: without a file, with a wrong extension, with undecodable
\* content, and with each of the files
Requests(files) ==
    {[has_file |-> FALSE, file_name |-> "", decodable |-> TRUE, lines |-> <<>>],
     [has_file |-> TRUE, file_name |-> "leads.txt", decodable |-> TRUE, lines |-> <<ValidA>>],
     [has_file |-> TRUE, file_name |-> "leads.csv", decodable |-> FALSE, lines |-> <<>>]}
    \cup {[has_file |-> TRUE, file_name |-> "leads.csv", decodable |-> TRUE, lines |-> f] :
            f \in files}

\* a lead that is in the table before the request
StoredLead(email) ==
    [id |-> IF email = EmailA THEN 1 ELSE 2, name |-> "Stored", age |-> 40,
     email |-> email, place |-> "Paris", status |-> "New",
     image_url |-> {}, remarks |-> {}]

\* a lead written by another request while the batch runs
ExternalLead(id, email) ==
    [id |-> id, name |-> "Other", age |-> 25, email |-> email, place |-> "Rome",
     status |-> "Converted", image_url |-> {}, remarks |-> {}]

NoResponse == [status |-> 0, kind |-> "none", body |-> <<>>]

NoPrior == [done |-> FALSE, outcomes |-> <<>>, errors |-> <<>>, store |-> {}]

InitWith(requests, stores, budget) ==
    /\ req \in requests
    /\ pc = "start"
    /\ \E present \in stores :
        store = {StoredLead(e) : e \in present}
    /\ store0 = {}
    /\ next_id = Cardinality(Emails) + 1
    /\ existing_emails = {}
    /\ seen_emails_in_csv = {}
    /\ success_count = 0
    /\ error_count = 0
    /\ errors = <<>>
    /\ created_leads = <<>>
    /\ response = NoResponse
    /\ outcomes = <<>>
    /\ db_reads = 0
    /\ db_writes = 0
    /\ row_num = FirstRowNum
    /\ ext_left = budget
    /\ prior = NoPrior

Init == InitWith(Requests(BatchFiles), SUBSET Emails, MaxExternal)

InitFields == InitWith(Requests(FieldFiles), {{}, {EmailA}}, 1)

----------------------------------------------------------------------------
(* The handler upload_csv *)

ErrorResponse(text) == [status |-> HTTP_400, kind |-> "error", body |-> text]

\* return of a file-level error: views.py 77-80, 86-89, 97-100
ReturnError(text) ==
    /\ response' = ErrorResponse(text)
    /\ pc' = "done"
    /\ UNCHANGED <<prior, req, store, next_id, existing_emails, seen_emails_in_csv,
                   success_count, error_count, errors, created_leads, outcomes,
                   db_reads, db_writes, store0, row_num, ext_left>>

\* views.py 76-80
NoFile ==
    /\ pc = "start"
    /\ ~req.has_file
    /\ ReturnError("No file provided. Please upload a CSV file.")

\* views.py 85-89
BadFileType ==
    /\ pc = "start"
    /\ req.has_file
    /\ ~EndsWith(req.file_name, ".csv")
    /\ ReturnError("Invalid file type. Please upload a CSV file.")

\* views.py 92-100
DecodeError ==
    /\ pc = "start"
    /\ req.has_file
    /\ EndsWith(req.file_name, ".csv")
    /\ ~req.decodable
    /\ ReturnError("Error reading CSV file: invalid start byte")

\* variant: the content is not decoded before the table is read
FileAcceptedUndecoded ==
    /\ pc = "start"
    /\ req.has_file
    /\ EndsWith(req.file_name, ".csv")
    /\ pc' = "snapshot"
    /\ UNCHANGED <<prior, req, store, next_id, existing_emails, seen_emails_in_csv,
                   success_count, error_count, errors, created_leads, response,
                   outcomes, db_reads, db_writes, store0, row_num, ext_left>>

\* views.py 76-95, no check fails
FileAccepted ==
    /\ pc = "start"
    /\ req.has_file
    /\ EndsWith(req.file_name, ".csv")
    /\ req.decodable
    /\ pc' = "snapshot"
    /\ UNCHANGED <<prior, req, store, next_id, existing_emails, seen_emails_in_csv,
                   success_count, error_count, errors, created_leads, response,
                   outcomes, db_reads, db_writes, store0, row_num, ext_left>>

\* views.py 102-110
\* variant: the file-scope set is kept by the module and outlives the request
ReadExistingSharedSeen ==
    /\ pc = "snapshot"
    /\ existing_emails' = StoreEmails(store)
    /\ store0' = StoreEmails(store)
    /\ db_reads' = db_reads + 1
    /\ success_count' = 0
    /\ error_count' = 0
    /\ errors' = <<>>
    /\ created_leads' = <<>>
    /\ pc' = "rows"
    /\ UNCHANGED <<prior, req, store, next_id, response, outcomes, db_writes, row_num,
                   ext_left, seen_emails_in_csv>>

ReadExisting ==
    /\ pc = "snapshot"
    /\ existing_emails' = StoreEmails(store)
    /\ store0' = StoreEmails(store)
    /\ db_reads' = db_reads + 1
    /\ success_count' = 0
    /\ error_count' = 0
    /\ errors' = <<>>
    /\ created_leads' = <<>>
    /\ seen_emails_in_csv' = {}
    /\ pc' = "rows"
    /\ UNCHANGED <<prior, req, store, next_id, response, outcomes, db_writes, row_num,
                   ext_left>>

\* the loop has a next row
HasRow == pc = "rows" /\ row_num - FirstRowNum + 1 <= Len(req.lines)

\* the row the loop is at
Line == req.lines[row_num - FirstRowNum + 1]

Email == Field(Line, "email")

\* variant: the entry is appended and the counter is left alone
RejectUncounted(entry) ==
    /\ errors' = Append(errors, entry)
    /\ outcomes' = Append(outcomes, [kind |-> "Rejected", id |-> 0,
            reasons |-> RowErrors(Line, seen_emails_in_csv, existing_emails)])
    /\ UNCHANGED <<error_count, success_count, created_leads>>

\* a row ends as a rejection with the given entry: views.py 186-191, 208-213,
\* 215-220
Reject(entry) ==
    /\ error_count' = error_count + 1
    /\ errors' = Append(errors, entry)
    /\ outcomes' = Append(outcomes, [kind |-> "Rejected", id |-> 0,
            reasons |-> RowErrors(Line, seen_emails_in_csv, existing_emails)])
    /\ UNCHANGED <<success_count, created_leads>>

\* variant: the identifier is not appended
AcceptUnlisted(lead) ==
    /\ existing_emails' = existing_emails \cup {lead.email}
    /\ success_count' = success_count + 1
    /\ outcomes' = Append(outcomes, [kind |-> "Accepted", id |-> lead.id,
            reasons |-> <<>>])
    /\ UNCHANGED <<error_count, errors, created_leads>>

\* variant: the identifier is appended and the counter is left alone
AcceptUncounted(lead) ==
    /\ created_leads' = Append(created_leads, lead.id)
    /\ existing_emails' = existing_emails \cup {lead.email}
    /\ outcomes' = Append(outcomes, [kind |-> "Accepted", id |-> lead.id,
            reasons |-> <<>>])
    /\ UNCHANGED <<error_count, errors, success_count>>

\* variant: the email of the created lead is not added to existing_emails
AcceptUntracked(lead) ==
    /\ created_leads' = Append(created_leads, lead.id)
    /\ success_count' = success_count + 1
    /\ outcomes' = Append(outcomes, [kind |-> "Accepted", id |-> lead.id,
            reasons |-> <<>>])
    /\ UNCHANGED <<error_count, errors, existing_emails>>

\* a row ends with its lead created: views.py 204-206
Accept(lead) ==
    /\ created_leads' = Append(created_leads, lead.id)
    /\ existing_emails' = existing_emails \cup {lead.email}
    /\ success_count' = success_count + 1
    /\ outcomes' = Append(outcomes, [kind |-> "Accepted", id |-> lead.id,
            reasons |-> <<>>])
    /\ UNCHANGED <<error_count, errors>>

\* views.py 117-125 raise AttributeError on a line shorter than the header;
\* nothing catches it and the request ends with a server error
RowRaisesError ==
    /\ HasRow
    /\ RowRaises(Line)
    /\ pc' = "crashed"
    /\ response' = [status |-> 500, kind |-> "exception", body |-> "AttributeError"]
    /\ UNCHANGED <<prior, req, store, next_id, existing_emails, seen_emails_in_csv,
                   success_count, error_count, errors, created_leads, outcomes,
                   db_reads, db_writes, store0, row_num, ext_left>>

\* views.py 114-191, row_errors is not empty
RowRejected ==
    /\ HasRow
    /\ ~RowRaises(Line)
    /\ RowErrors(Line, seen_emails_in_csv, existing_emails) # <<>>
    /\ Reject(ErrorEntry(row_num, Email,
                         RowErrors(Line, seen_emails_in_csv, existing_emails)))
    /\ seen_emails_in_csv' = SeenAfter(Email, seen_emails_in_csv)
    /\ row_num' = row_num + 1
    /\ UNCHANGED <<prior, req, pc, store, next_id, existing_emails, response, db_reads,
                   db_writes, store0, ext_left>>

\* views.py 114-206, row_errors is empty and the create succeeds
RowCreated ==
    /\ HasRow
    /\ ~RowRaises(Line)
    /\ RowErrors(Line, seen_emails_in_csv, existing_emails) = <<>>
    /\ ~UniqueViolation(store, Email)
    /\ store' = store \cup {NewLead(next_id, Line)}
    /\ next_id' = next_id + 1
    /\ Accept(NewLead(next_id, Line))
    /\ seen_emails_in_csv' = SeenAfter(Email, seen_emails_in_csv)
    /\ db_writes' = db_writes + 1
    /\ row_num' = row_num + 1
    /\ UNCHANGED <<prior, req, pc, response, db_reads, store0, ext_left>>

\* variant: the lead that holds the email is replaced by the row's lead
\* (update_or_create) and the row is still counted as an error
RowIntegrityErrorOverwrites ==
    /\ HasRow
    /\ ~RowRaises(Line)
    /\ RowErrors(Line, seen_emails_in_csv, existing_emails) = <<>>
    /\ UniqueViolation(store, Email)
    /\ store' = {l \in store : l.email # Email} \cup {NewLead(next_id, Line)}
    /\ next_id' = next_id + 1
    /\ Reject(IntegrityEntry(row_num, Email))
    /\ seen_emails_in_csv' = SeenAfter(Email, seen_emails_in_csv)
    /\ db_writes' = db_writes + 1
    /\ row_num' = row_num + 1
    /\ UNCHANGED <<prior, req, pc, existing_emails, response, db_reads,
                   store0, ext_left>>

\* views.py 114-213, row_errors is empty and the create raises IntegrityError
RowIntegrityError ==
    /\ HasRow
    /\ ~RowRaises(Line)
    /\ RowErrors(Line, seen_emails_in_csv, existing_emails) = <<>>
    /\ UniqueViolation(store, Email)
    /\ Reject(IntegrityEntry(row_num, Email))
    /\ seen_emails_in_csv' = SeenAfter(Email, seen_emails_in_csv)
    /\ db_writes' = db_writes + 1
    /\ row_num' = row_num + 1
    /\ UNCHANGED <<prior, req, pc, store, next_id, existing_emails, response, db_reads,
                   store0, ext_left>>

\* variant: no clause catches the other exceptions
RowUnexpectedErrorUncaught ==
    /\ HasRow
    /\ ~RowRaises(Line)
    /\ RowErrors(Line, seen_emails_in_csv, existing_emails) = <<>>
    /\ db_writes' = db_writes + 1
    /\ pc' = "crashed"
    /\ response' = [status |-> 500, kind |-> "exception", body |-> "OperationalError"]
    /\ UNCHANGED <<prior, req, store, next_id, existing_emails, seen_emails_in_csv,
                   success_count, error_count, errors, created_leads, outcomes,
                   db_reads, store0, row_num, ext_left>>

\* views.py 114-220, row_errors is empty and the create raises another
\* exception (the store cannot be reached, a value is out of its range)
RowUnexpectedError ==
    /\ HasRow
    /\ ~RowRaises(Line)
    /\ RowErrors(Line, seen_emails_in_csv, existing_emails) = <<>>
    /\ Reject(UnexpectedEntry(row_num, Email, "connection refused"))
    /\ seen_emails_in_csv' = SeenAfter(Email, seen_emails_in_csv)
    /\ db_writes' = db_writes + 1
    /\ row_num' = row_num + 1
    /\ UNCHANGED <<prior, req, pc, store, next_id, existing_emails, response, db_reads,
                   store0, ext_left>>

\* views.py 222-238
Respond ==
    /\ pc = "rows"
    /\ ~HasRow
    /\ response' = [status |-> Classify(success_count, error_count),
                    kind |-> "summary",
                    body |-> Summary(success_count, error_count, errors, created_leads)]
    /\ pc' = "done"
    /\ UNCHANGED <<prior, req, store, next_id, existing_emails, seen_emails_in_csv,
                   success_count, error_count, errors, created_leads, outcomes,
                   db_reads, db_writes, store0, row_num, ext_left>>

----------------------------------------------------------------------------
(* Other requests of the view set, running while the batch runs *)

\* POST /api/leads/ (ModelViewSet.create) with an email the table lacks
ExternalCreate ==
    /\ ext_left > 0
    /\ \E e \in Emails :
        /\ ~UniqueViolation(store, e)
        /\ store' = store \cup {ExternalLead(next_id, e)}
    /\ next_id' = next_id + 1
    /\ ext_left' = ext_left - 1
    /\ UNCHANGED <<prior, req, pc, existing_emails, seen_emails_in_csv, success_count,
                   error_count, errors, created_leads, response, outcomes,
                   db_reads, db_writes, store0, row_num>>

\* DELETE /api/leads/{id}/: views.py 57-66
ExternalDelete ==
    /\ ext_left > 0
    /\ \E l \in store : store' = store \ {l}
    /\ ext_left' = ext_left - 1
    /\ UNCHANGED <<prior, req, pc, next_id, existing_emails, seen_emails_in_csv,
                   success_count, error_count, errors, created_leads, response,
                   outcomes, db_reads, db_writes, store0, row_num>>

Next ==
    \/ NoFile
    \/ BadFileType
    \/ DecodeError
    \/ FileAccepted
    \/ ReadExisting
    \/ RowRaisesError
    \/ RowRejected
    \/ RowCreated
    \/ RowIntegrityError
    \/ RowUnexpectedError
    \/ Respond
    \/ ExternalCreate
    \/ ExternalDelete

\* the same file is uploaded again once the request has been answered: a new
\* invocation of upload_csv, whose locals are set by lines 102-113
Reupload ==
    /\ pc \in {"done", "crashed"}
    /\ ~prior.done
    /\ prior' = [done |-> TRUE, outcomes |-> outcomes, errors |-> errors,
                 store |-> store]
    /\ pc' = "start"
    /\ response' = NoResponse
    /\ outcomes' = <<>>
    /\ row_num' = FirstRowNum
    /\ db_reads' = 0
    /\ db_writes' = 0
    /\ store0' = {}
    /\ UNCHANGED <<req, store, next_id, existing_emails, seen_emails_in_csv,
                   success_count, error_count, errors, created_leads, ext_left>>

NextTwice == Next \/ Reupload

Spec == Init /\ [][Next]_vars

SpecTwice == Init /\ [][NextTwice]_vars

SpecFields == InitFields /\ [][Next]_vars

----------------------------------------------------------------------------
TypeOK ==
    /\ pc \in {"start", "snapshot", "rows", "done", "crashed"}
    /\ success_count \in Nat
    /\ error_count \in Nat

----------------------------------------------------------------------------
(* Vocabulary of the properties *)

Processed == Len(outcomes)

LineAt(k) == req.lines[k]

EmailAt(k) == Field(LineAt(k), "email")

RowNumOf(k) == k + FirstRowNum - 1

HasEntry(k) == \E i \in 1..Len(errors) : errors[i].row = RowNumOf(k)

MessageOf(k) == errors[CHOOSE i \in 1..Len(errors) : errors[i].row = RowNumOf(k)].message

\* the row was rejected with a message that contains the text
Flagged(k, text) == HasEntry(k) /\ Contains(MessageOf(k), text)

Accepted(k) == outcomes[k].kind = "Accepted"

Rejected(k) == outcomes[k].kind = "Rejected"

\* the create call of the row raised
StoreFailed(k) == Flagged(k, "Database error: ") \/ Flagged(k, "Unexpected error: ")

\* the row passes every field rule, the duplicate checks aside
FieldsValid(line) == ~RowRaises(line) /\ RowErrors(line, {}, {}) = <<>>

FileDuplicateText == "Duplicate email in CSV file"

DbDuplicateText == "Email already exists in database"

FileLevelFault == ~req.has_file \/ ~EndsWith(req.file_name, ".csv") \/ ~req.decodable

----------------------------------------------------------------------------
(* C1: after every prefix of rows, success_count + error_count is the number
   of data rows processed so far, and the summary of a completed batch counts
   every data row of the file, whatever the mix of valid rows, invalid rows,
   duplicates and store failures. *)
C1_CountsMatchRows ==
    /\ success_count + error_count = row_num - FirstRowNum
    /\ response.kind = "summary" =>
        response.body.success_count + response.body.error_count = Len(req.lines)

\* a completed batch with one created lead and one store failure
C1_Witness ==
    /\ response.kind = "summary"
    /\ response.body.success_count = 1
    /\ response.body.error_count = 1
    /\ \E k \in 1..Processed : StoreFailed(k)

(* C2: within one batch no two Accepted rows share an email. *)
C2_AcceptedEmailsDistinct ==
    \A i, j \in 1..Processed :
        (i < j /\ Accepted(i) /\ Accepted(j)) => EmailAt(i) # EmailAt(j)

\* two rows carry the same email, the lead of the first was created and has
\* been deleted by another request before the second row is processed
C2_Witness ==
    /\ Processed = 2
    /\ EmailAt(1) = EmailAt(2)
    /\ FieldsValid(LineAt(2))
    /\ Accepted(1)
    /\ Rejected(2)
    /\ EmailAt(1) \notin StoreEmails(store)

(* C3: every row whose trimmed email was in the store when the batch read it
   is Rejected with a message containing "Email already exists in database",
   and no lead is created for it. *)
C3_StoredEmailRejected ==
    \A k \in 1..Processed :
        EmailAt(k) \in store0 =>
            /\ Rejected(k)
            /\ Flagged(k, DbDuplicateText)
            /\ outcomes[k].id \notin {created_leads[i] : i \in 1..Len(created_leads)}

\* the only row of the file is valid but for its stored email
C3_Witness ==
    /\ Len(req.lines) = 1
    /\ Processed = 1
    /\ FieldsValid(LineAt(1))
    /\ EmailAt(1) \in store0
    /\ response.status = HTTP_400

(* C4: when two rows carry the same email, the email is not in the store, both
   rows are otherwise valid and the store write of the first succeeds, the
   first is Accepted and the second is Rejected with "Duplicate email in CSV
   file"; the batch is then Partial Success. *)
C4_SecondOfPairRejected ==
    \A i, j \in 1..Processed :
        ( /\ i < j
          /\ EmailAt(i) = EmailAt(j)
          /\ \A h \in 1..(i - 1) : EmailAt(h) # EmailAt(i)
          /\ EmailAt(i) \notin store0
          /\ FieldsValid(LineAt(i))
          /\ FieldsValid(LineAt(j))
          /\ ~StoreFailed(i) )
        => /\ Accepted(i)
           /\ Rejected(j)
           /\ Flagged(j, FileDuplicateText)
           /\ response.kind = "summary" => response.status = HTTP_200

\* the batch of two valid rows with one email has been answered
C4_Witness ==
    /\ Processed = 2
    /\ EmailAt(1) = EmailAt(2)
    /\ EmailAt(1) \notin store0
    /\ FieldsValid(LineAt(1))
    /\ FieldsValid(LineAt(2))
    /\ Accepted(1)
    /\ response.status = HTTP_200

(* C5, as claimed: the file-scope set holds only emails of Accepted rows, and a
   row is flagged "Duplicate email in CSV file" only if an earlier row with
   the same email was Accepted. *)
C5_SeenOnlyAccepted ==
    /\ seen_emails_in_csv \subseteq {EmailAt(k) : k \in {h \in 1..Processed : Accepted(h)}}
    /\ \A k \in 1..Processed :
        Flagged(k, FileDuplicateText) =>
            \E i \in 1..(k - 1) : EmailAt(i) = EmailAt(k) /\ Accepted(i)

(* C5, amended: the file-scope set holds the non-empty trimmed emails of all
   rows processed so far, Accepted or Rejected, and a row is flagged
   "Duplicate email in CSV file" exactly when an earlier row of the file
   carries the same non-empty email. *)
C5_SeenAllProcessed ==
    /\ seen_emails_in_csv = {EmailAt(k) : k \in 1..Processed} \ {""}
    /\ \A k \in 1..Processed :
        Flagged(k, FileDuplicateText) <=>
            /\ EmailAt(k) # ""
            /\ \E i \in 1..(k - 1) : EmailAt(i) = EmailAt(k)

\* a valid row is flagged after a Rejected row with its email
C5_Witness ==
    /\ Processed = 2
    /\ Rejected(1)
    /\ ~StoreFailed(1)
    /\ EmailAt(1) = EmailAt(2)
    /\ EmailAt(2) \notin store0
    /\ FieldsValid(LineAt(2))
    /\ Flagged(2, FileDuplicateText)

(* C6: once the file-level checks pass, every data row yields one outcome and
   a summary is returned, whatever failures earlier rows had, rows with fewer
   fields than the header included. *)
C6_EveryRowHasOutcome ==
    response.kind \in {"summary", "exception"} =>
        /\ response.kind = "summary"
        /\ Processed = Len(req.lines)

(* C7: the status of a completed batch is a function of the two counters: 201
   iff error_count = 0, 200 iff both counters are positive, 400 iff
   success_count = 0 and error_count > 0; the summary is returned in all three
   cases, and a file without data rows is Full Success with nothing created. *)
C7_ClassificationByCounters ==
    response.kind = "summary" =>
        /\ response.status = HTTP_201 <=> error_count = 0
        /\ response.status = HTTP_200 <=> (error_count > 0 /\ success_count > 0)
        /\ response.status = HTTP_400 <=> (success_count = 0 /\ error_count > 0)
        /\ response.body.success_count = success_count
        /\ response.body.error_count = error_count
        /\ response.body.errors = errors
        /\ response.body.created_leads = created_leads
        /\ Len(req.lines) = 0 =>
            response.status = HTTP_201 /\ response.body.created_leads = <<>>

\* the file with a header and no data row has been answered
C7_Witness ==
    /\ response.kind = "summary"
    /\ Len(req.lines) = 0
    /\ response.status = HTTP_201
    /\ db_writes = 0

\* the rows the loop has taken, the one that raised included
Attempted == Processed + (IF pc = "crashed" THEN 1 ELSE 0)

RequiredColumns == {"name", "age", "email", "place", "status"}

RequiredAbsent(line) ==
    \E col \in RequiredColumns : IsNone(line, col) \/ Field(line, col) = ""

(* C8: a row in which name, age, email, place or status is missing or empty is
   always Rejected and never written to the store. *)
C8_MissingRequiredRejected ==
    \A k \in 1..Attempted :
        RequiredAbsent(LineAt(k)) =>
            /\ k <= Processed
            /\ Rejected(k)
            /\ outcomes[k].id \notin {created_leads[i] : i \in 1..Len(created_leads)}

(* C9, as claimed: whenever the loop processes a row that passes every field
   rule and whose email is neither in the store nor used by an earlier row,
   the row is Accepted. *)
C9_ValidFreshRowAccepted ==
    [][ ( /\ HasRow
          /\ FieldsValid(Line)
          /\ Email \notin existing_emails
          /\ Email \notin StoreEmails(store)
          /\ Email \notin seen_emails_in_csv
          /\ pc' # "crashed"
          /\ row_num' = row_num + 1 )
        => /\ success_count' = success_count + 1
           /\ created_leads' = Append(created_leads, next_id) ]_vars

(* C9, amended: whenever the loop processes such a row and the create call of
   the store succeeds, the row is Accepted: its lead is added to the store,
   its identifier is appended to created_leads and success_count grows by one. *)
C9_ValidFreshRowAcceptedIfStored ==
    [][ ( /\ HasRow
          /\ FieldsValid(Line)
          /\ Email \notin existing_emails
          /\ Email \notin seen_emails_in_csv
          /\ row_num' = row_num + 1
          /\ error_count' = error_count )
        => /\ success_count' = success_count + 1
           /\ created_leads' = Append(created_leads, next_id)
           /\ NewLead(next_id, Line) \notin store
           /\ store' = store \cup {NewLead(next_id, Line)}
           /\ Processed' = Processed + 1
           /\ outcomes'[Processed'] = [kind |-> "Accepted", id |-> next_id,
                                       reasons |-> <<>>] ]_vars

\* header and the row Alice,30,a@x.com,NYC,New,, on an empty store
C9_Witness ==
    /\ req.lines = <<ValidA>>
    /\ store0 = {}
    /\ response.status = HTTP_201
    /\ response.body.success_count = 1
    /\ response.body.error_count = 0
    /\ Len(response.body.created_leads) = 1

(* C10: a request without a file, with a name not ending in .csv or with
   undecodable content gets a single error response without a summary, before
   the store is read or written: no snapshot, no row, no lead. *)
C10_FileErrorBeforeStore ==
    /\ FileLevelFault =>
        /\ pc \in {"start", "done"}
        /\ pc = "done" => response.kind = "error" /\ response.status = HTTP_400
        /\ db_reads = 0
        /\ db_writes = 0
        /\ existing_emails = {}
        /\ Processed = 0
        /\ row_num = FirstRowNum
        /\ created_leads = <<>>
    /\ response.kind = "error" => FileLevelFault

\* a file with a data row and the wrong extension has been answered
C10_Witness ==
    /\ pc = "done"
    /\ response.kind = "error"
    /\ req.has_file
    /\ Len(req.lines) = 1
    /\ store # {}

(* C11: a store failure while creating the lead of a validated row, a
   uniqueness violation or any other error, makes the row Rejected with its
   row number and email: error_count grows by one, success_count and
   created_leads stay, and the loop goes on to the next row. *)
C11_StoreFailureRejectsRow ==
    [][ ( /\ HasRow
          /\ db_writes' = db_writes + 1
          /\ store' = store )
        => /\ error_count' = error_count + 1
           /\ success_count' = success_count
           /\ created_leads' = created_leads
           /\ Len(errors') = Len(errors) + 1
           /\ SubSeq(errors', 1, Len(errors)) = errors
           /\ errors'[Len(errors')].row = row_num
           /\ errors'[Len(errors')].email = Email
           /\ Processed' = Processed + 1
           /\ outcomes'[Processed'].kind = "Rejected"
           /\ pc' = "rows"
           /\ row_num' = row_num + 1 ]_vars

\* the create of the first row failed and the second row was created
C11_Witness ==
    /\ Processed = 2
    /\ StoreFailed(1)
    /\ errors[1].row = FirstRowNum
    /\ errors[1].email = EmailAt(1)
    /\ Accepted(2)

UniqueEmails(s) == \A l1, l2 \in s : l1.email = l2.email => l1 = l2

(* C12: while other writers create and delete leads during the batch, each
   after the batch took its snapshot, the store never holds two leads with one
   email: the uniqueness constraint rejects the later write, the batch records
   that row as Rejected, and success_count + error_count still counts the rows
   processed. *)
C12_ConcurrentWritersKeepEmailsUnique ==
    /\ [](/\ UniqueEmails(store)
          /\ success_count + error_count = row_num - FirstRowNum
          /\ response.kind = "summary" =>
                success_count + error_count = Len(req.lines))
    /\ [][ ( /\ HasRow
             /\ ~RowRaises(Line)
             /\ RowErrors(Line, seen_emails_in_csv, existing_emails) = <<>>
             /\ UniqueViolation(store, Email)
             /\ row_num' = row_num + 1 )
           => /\ store' = store
              /\ error_count' = error_count + 1
              /\ success_count' = success_count
              /\ outcomes'[Processed'].kind = "Rejected" ]_vars

\* another request created the email after the snapshot, the row of the batch
\* lost the race and the batch has been answered
C12_Witness ==
    /\ response.kind = "summary"
    /\ Processed >= 1
    /\ EmailAt(1) \notin store0
    /\ EmailAt(1) \in StoreEmails(store)
    /\ Flagged(1, "Database error: ")
    /\ Rejected(1)
    /\ ext_left < MaxExternal

IsAcceptedOutcome(o) == o.kind = "Accepted"

\* the identifiers of the Accepted rows, in file order
AcceptedIds ==
    [i \in 1..Len(SelectSeq(outcomes, IsAcceptedOutcome)) |->
        SelectSeq(outcomes, IsAcceptedOutcome)[i].id]

(* C13: created_leads holds one identifier per Accepted row, in file order;
   its length is success_count after every row; and each identifier in it is
   that of one lead the batch added to the store, every lead the batch adds
   being listed. *)
C13_CreatedLeadsMatchAccepted ==
    /\ [](/\ Len(created_leads) = success_count
          /\ created_leads = AcceptedIds
          /\ \A i, j \in 1..Len(created_leads) :
                i < j => created_leads[i] < created_leads[j])
    /\ [][ ( \/ created_leads' # created_leads
             \/ success_count' # success_count
             \/ (row_num' # row_num /\ store' # store) )
           => \E lead \in store' \ store :
                /\ store' = store \cup {lead}
                /\ created_leads' = Append(created_leads, lead.id)
                /\ success_count' = success_count + 1 ]_vars

\* a batch of two rows created two leads
C13_Witness ==
    /\ response.kind = "summary"
    /\ Len(created_leads) = 2
    /\ Accepted(1)
    /\ Accepted(2)
    /\ \A i \in 1..2 : \E l \in store : l.id = created_leads[i] /\ l.email = EmailAt(i)

IsDuplicateText(m) == m \in {FileDuplicateText, DbDuplicateText}

IsStructuralText(m) == ~IsDuplicateText(m)

\* the field-rule messages of a row, the duplicate messages left out
Structural(reasons) == SelectSeq(reasons, IsStructuralText)

\* the row was rejected by the checks of lines 127-182
RejectedByChecks(k) == Rejected(k) /\ outcomes[k].reasons # <<>>

(* C14: the field-rule error list of a row depends on the row alone: it is
   the list the rules give for the row without any duplicate-tracking state,
   whatever the rows before it and the store, and a row that occurs twice in
   a file gets the same list at both places. *)
C14_StructuralErrorsByRowAlone ==
    \A k \in 1..Processed :
        /\ RejectedByChecks(k) => MessageOf(k) = Join(outcomes[k].reasons, "; ")
        /\ Structural(outcomes[k].reasons) = RowErrors(LineAt(k), {}, {})
        /\ \A j \in 1..Processed :
            LineAt(j) = LineAt(k) =>
                Structural(outcomes[j].reasons) = Structural(outcomes[k].reasons)

\* one row occurs twice; its second occurrence carries a duplicate message
\* next to the same field-rule messages
C14_Witness ==
    /\ Processed = 2
    /\ LineAt(1) = LineAt(2)
    /\ RejectedByChecks(1)
    /\ RejectedByChecks(2)
    /\ outcomes[1].reasons # outcomes[2].reasons
    /\ Structural(outcomes[2].reasons) # <<>>
    /\ Flagged(2, FileDuplicateText)

\* an earlier row with the email of row k was Accepted
AcceptedBefore(k) == \E i \in 1..(k - 1) : Accepted(i) /\ EmailAt(i) = EmailAt(k)

(* C15, as claimed: the persisted-email set is the snapshot read before the
   first row and nothing else, and a row is flagged "Email already exists in
   database" only if its email was in the store at that time. *)
C15_PersistedSetIsSnapshot ==
    /\ db_reads <= 1
    /\ existing_emails = store0
    /\ \A k \in 1..Processed : Flagged(k, DbDuplicateText) => EmailAt(k) \in store0

(* C15, amended: the persisted-email set is read from the store once, before
   the first row, and from then on is that snapshot together with the emails
   of the rows Accepted so far in the batch; writes of other requests after
   the snapshot never enter it.  A row is flagged "Email already exists in
   database" exactly when its email was in the snapshot or an earlier row of
   the batch with that email was Accepted. *)
C15_PersistedSetIsSnapshotPlusAccepted ==
    /\ db_reads <= 1
    /\ existing_emails =
        store0 \cup {EmailAt(k) : k \in {h \in 1..Processed : Accepted(h)}}
    /\ \A k \in 1..Processed :
        Flagged(k, DbDuplicateText) <=> (EmailAt(k) \in store0 \/ AcceptedBefore(k))

\* the second row repeats the email of the first, which was created during
\* the batch and was not in the store before
C15_Witness ==
    /\ Processed = 2
    /\ Accepted(1)
    /\ EmailAt(2) = EmailAt(1)
    /\ EmailAt(2) \notin store0
    /\ FieldsValid(LineAt(2))
    /\ Flagged(2, DbDuplicateText)

\* the reasons recorded for row k include the text
HasReason(k, text) == \E i \in 1..Len(outcomes[k].reasons) : outcomes[k].reasons[i] = text

\* an earlier row of the file carries the email of row k
EarlierInFile(k) == \E i \in 1..(k - 1) : EmailAt(i) = EmailAt(k)

(* C16: the two duplicate checks do not short-circuit.  For every processed
   row with a non-empty email, "Duplicate email in CSV file" is among its
   reasons exactly when an earlier row of the file has its email, and "Email
   already exists in database" exactly when its email was in the store at
   batch start or was Accepted earlier in the batch; neither depends on the
   other nor on whether the other fields are valid, and each is emitted at
   most once. *)
C16_DuplicateChecksIndependent ==
    \A k \in 1..Processed :
        EmailAt(k) # "" =>
            /\ HasReason(k, FileDuplicateText) <=> EarlierInFile(k)
            /\ HasReason(k, DbDuplicateText) <=>
                (EmailAt(k) \in store0 \/ AcceptedBefore(k))
            /\ Len(SelectSeq(outcomes[k].reasons, IsDuplicateText)) =
                (IF EarlierInFile(k) THEN 1 ELSE 0)
                + (IF EmailAt(k) \in store0 \/ AcceptedBefore(k) THEN 1 ELSE 0)

\* one row carries both duplicate messages next to a field-rule message
C16_Witness ==
    /\ Processed = 2
    /\ ~FieldsValid(LineAt(2))
    /\ HasReason(2, FileDuplicateText)
    /\ HasReason(2, DbDuplicateText)
    /\ Structural(outcomes[2].reasons) # <<>>
    /\ Contains(MessageOf(2), FileDuplicateText \o "; " \o DbDuplicateText)

\* the duplicate messages row k is due, from the rows before it and the store
DuplicatesDue(k) ==
    IF EmailAt(k) = "" THEN <<>>
    ELSE (IF EarlierInFile(k) THEN <<FileDuplicateText>> ELSE <<>>)
            \o (IF EmailAt(k) \in store0 \/ AcceptedBefore(k)
                THEN <<DbDuplicateText>> ELSE <<>>)

\* the reasons of row k in the order of the checks of the handler
ReasonsInFieldOrder(k) ==
    NameErrors(Field(LineAt(k), "name"))
        \o AgeErrors(Field(LineAt(k), "age"))
        \o (IF EmailAt(k) = "" THEN <<"Email is required">> ELSE FormatErrors(EmailAt(k)))
        \o DuplicatesDue(k)
        \o PlaceErrors(Field(LineAt(k), "place"))
        \o StatusErrors(Field(LineAt(k), "status"))
        \o ImageErrors(OrNone(Field(LineAt(k), "image_url")))

(* C17, as claimed: in the message of a Rejected row all field-rule messages
   come first and the duplicate messages after them; a duplicate message never
   precedes a field-rule message of the same row. *)
C17_DuplicatesAfterStructural ==
    \A k \in 1..Processed :
        RejectedByChecks(k) =>
            /\ MessageOf(k) = Join(outcomes[k].reasons, "; ")
            /\ \A i, j \in 1..Len(outcomes[k].reasons) :
                (i < j /\ IsDuplicateText(outcomes[k].reasons[i]))
                    => IsDuplicateText(outcomes[k].reasons[j])

(* C17, amended: the message of a Rejected row joins its reasons with "; " in
   the order of the checks: name, age, email (required or format, then
   "Duplicate email in CSV file", then "Email already exists in database"),
   place, status, image_url.  The duplicate messages follow the name, age and
   email-format messages and precede the place, status and image_url
   messages. *)
C17_ReasonsInCheckOrder ==
    \A k \in 1..Processed :
        RejectedByChecks(k) =>
            /\ outcomes[k].reasons = ReasonsInFieldOrder(k)
            /\ MessageOf(k) = Join(ReasonsInFieldOrder(k), "; ")

\* a Rejected row whose message has a duplicate message between an age message
\* and a place message
C17_Witness ==
    \E k \in 1..Processed :
        /\ RejectedByChecks(k)
        /\ \E i \in 2..(Len(outcomes[k].reasons) - 1) :
            /\ IsDuplicateText(outcomes[k].reasons[i])
            /\ outcomes[k].reasons[i - 1] \in {"Age is required",
                    "Age must be a positive number", "Age must be a valid integer",
                    "Invalid email format"}
            /\ outcomes[k].reasons[i + 1] \in {"Place is required",
                    "Place must be 100 characters or less"}

NegativeAgeText == "Age must be a positive number"

\* the lead satisfies every field rule of the handler
LeadValid(l) ==
    /\ l.name # "" /\ Len(l.name) <= MaxNameLen
    /\ l.place # "" /\ Len(l.place) <= MaxPlaceLen
    /\ l.age \in Int /\ l.age >= 0
    /\ l.email # "" /\ IsValidEmail(l.email)
    /\ l.status \in {"New", "Converted"}
    /\ \A u \in l.image_url : Len(u) <= MaxUrlLen

\* the leads of the store the batch created
CreatedInStore == {l \in store : \E i \in 1..Len(created_leads) : created_leads[i] = l.id}

(* C18: no invalid value reaches storage through ingestion.  Every lead the
   batch created has a non-empty name and place of at most 100 characters, an
   integer age >= 0, a non-empty valid email, a status New or Converted and an
   image_url absent or of at most 200 characters, and is the lead built from
   the stripped fields of its row; a row with a negative age is Rejected with
   "Age must be a positive number", a row with age zero is not rejected for
   its age. *)
C18_CreatedLeadsValid ==
    /\ \A l \in CreatedInStore : LeadValid(l)
    /\ \A k \in 1..Processed :
        /\ Accepted(k) =>
            /\ LeadValid(NewLead(outcomes[k].id, LineAt(k)))
            /\ \A l \in store :
                l.id = outcomes[k].id => l = NewLead(outcomes[k].id, LineAt(k))
        /\ (IsInt(Field(LineAt(k), "age")) /\ IntOf(Field(LineAt(k), "age")) < 0) =>
            Rejected(k) /\ HasReason(k, NegativeAgeText)
        /\ (IsInt(Field(LineAt(k), "age")) /\ IntOf(Field(LineAt(k), "age")) = 0) =>
            \A i \in 1..Len(outcomes[k].reasons) :
                outcomes[k].reasons[i] \notin {"Age is required",
                    "Age must be a valid integer", NegativeAgeText}

\* a row with a negative age was Rejected and a row with age zero and fields
\* of the greatest allowed lengths was created
C18_Witness ==
    /\ Processed = 2
    /\ Flagged(1, NegativeAgeText)
    /\ Accepted(2)
    /\ \E l \in CreatedInStore :
        /\ l.id = outcomes[2].id
        /\ l.age = 0
        /\ Len(l.name) = MaxNameLen
        /\ Len(l.place) = MaxPlaceLen
        /\ \E u \in l.image_url : Len(u) = MaxUrlLen

\* a step of the upload handler, as opposed to a step of another request
HandlerStep == ext_left' = ext_left

\* the step ends a row with the given kind of outcome
RowEnds(kind) ==
    /\ Len(outcomes') = Len(outcomes) + 1
    /\ outcomes'[Len(outcomes')].kind = kind

IngestionOnlyAdds ==
    HandlerStep =>
        /\ store \subseteq store'
        /\ RowEnds("Rejected") =>
            /\ store' = store
            /\ success_count' = success_count
            /\ created_leads' = created_leads
        /\ RowEnds("Accepted") =>
            /\ \E l \in store' \ store :
                /\ store' = store \cup {l}
                /\ l.id = outcomes'[Len(outcomes')].id
                /\ \A o \in store : o.id # l.id /\ o.email # l.email
            /\ success_count' = success_count + 1
            /\ created_leads' = Append(created_leads, outcomes'[Len(outcomes')].id)
        /\ Len(outcomes') = Len(outcomes) => store' = store

(* C19: ingestion only ever adds leads.  A step of the handler never removes
   or changes a lead of the store; a step that ends a row as Rejected leaves
   the store, success_count and created_leads unchanged; a step that ends a
   row as Accepted adds exactly one lead, with a new identifier and a new
   email; every other step of the handler leaves the store unchanged. *)
C19_IngestionOnlyAdds == [][IngestionOnlyAdds]_vars

\* a row was created and the next row, whose email a stored lead holds, was
\* Rejected; the stored lead and the created lead are both as they were
C19_Witness ==
    /\ Processed = 2
    /\ Accepted(1)
    /\ Rejected(2)
    /\ EmailAt(2) \in store0
    /\ StoredLead(EmailAt(2)) \in store
    /\ NewLead(outcomes[1].id, LineAt(1)) \in store
    /\ success_count = 1

IsUnexpectedEntry(e) == Contains(e.message, "Unexpected error: ")

\* the second upload of the file is past its snapshot, no other request has
\* written, and no create call failed for a reason other than uniqueness
SecondUploadAlone ==
    /\ prior.done
    /\ pc \in {"rows", "done"}
    /\ db_reads = 1
    /\ ext_left = MaxExternal
    /\ SelectSeq(prior.errors, IsUnexpectedEntry) = <<>>
    /\ SelectSeq(errors, IsUnexpectedEntry) = <<>>

(* C20: duplicate-tracking state is per batch and the store is the only state
   carried across batches.  When the same file is uploaded a second time, with
   no other writers and no store failure other than uniqueness, the second
   upload starts from the store the first one left and from an empty
   file-scope set, creates no lead, rejects every row and, with "Email already
   exists in database", every row that was Accepted the first time, flags
   "Duplicate email in CSV file" only for an email an earlier row of this
   upload carries, and leaves the store as it was after the first upload. *)
C20_ReuploadCreatesNothing ==
    SecondUploadAlone =>
        /\ store0 = StoreEmails(prior.store)
        /\ store = prior.store
        /\ success_count = 0
        /\ created_leads = <<>>
        /\ seen_emails_in_csv = {EmailAt(k) : k \in 1..Processed} \ {""}
        /\ \A k \in 1..Processed :
            /\ Rejected(k)
            /\ k <= Len(prior.outcomes)
            /\ prior.outcomes[k].kind = "Accepted" =>
                Flagged(k, DbDuplicateText)
            /\ HasReason(k, FileDuplicateText) <=> (EmailAt(k) # "" /\ EarlierInFile(k))
            /\ Structural(outcomes[k].reasons) = Structural(prior.outcomes[k].reasons)
                \/ prior.outcomes[k].kind = "Accepted"
        /\ (pc = "done" /\ Processed > 0) => response.status = HTTP_400

\* both rows of the file were Accepted the first time; the second upload has
\* been answered with status 400
C20_Witness ==
    /\ SecondUploadAlone
    /\ pc = "done"
    /\ Processed = 2
    /\ \A k \in 1..2 : prior.outcomes[k].kind = "Accepted" /\ Flagged(k, DbDuplicateText)
    /\ response.status = HTTP_400
    /\ Cardinality(store) = 2
====
